---- MODULE Spec2Model ----
(***************************************************************************)
(* Model of examples/StraightLine/GPRegression.ipynb: the Rescaler class   *)
(* and the sequence of Gaussian-process calls the notebook makes.          *)
(*                                                                         *)
(* Numbers are binary floating-point values with a Prec-bit significand    *)
(* and round-to-nearest-even, the arithmetic numpy's float64 performs with *)
(* a 53-bit significand.  The exponent is unbounded: overflow and          *)
(* underflow are outside the model.  Division by zero yields inf or nan    *)
(* and raises nothing, as numpy array arithmetic does.                     *)
(***************************************************************************)
EXTENDS Integers, Sequences, FiniteSets, TLC

\* Significand width of the modelled floating-point format (float64: 53).
Prec == 8

\* Number of observations generate_data returns in the model.
NData == 3

\* Largest integer magnitude of a generated y value.
MaxY == 3

\* Largest integer magnitude of a generated sigma_y value.
MaxSigma == 2

----------------------------------------------------------------------------
(* Floating-point arithmetic.                                              *)

RECURSIVE Pow2(_)
Pow2(n) == IF n <= 0 THEN 1 ELSE 2 * Pow2(n - 1)

RECURSIVE BitLen(_)
BitLen(n) == IF n <= 0 THEN 0 ELSE 1 + BitLen(n \div 2)

Abs(n) == IF n < 0 THEN -n ELSE n

Sgn(n) == IF n < 0 THEN -1 ELSE IF n > 0 THEN 1 ELSE 0

\* A value: c = "fin" is m * 2^e with m = 0 or 2^(Prec-1) <= |m| < 2^Prec.
Fin(m, e) == [c |-> "fin", m |-> m, e |-> e]

Zero == Fin(0, 0)

NaN == [c |-> "nan", m |-> 0, e |-> 0]

Inf(s) == [c |-> "inf", m |-> s, e |-> 0]

IsFinite(a) == a.c = "fin"

\* A value scikit-learn computed (a posterior mean, a posterior standard
\* deviation, a sampled function value) or a value derived from one: the
\* model keeps the expression and does not evaluate it.
Sym(f, args) == [c |-> "sym", f |-> f, a |-> args]

\* n * 2^e rounded to Prec significant bits, ties to even.
Round(n, e) ==
    LET a == Abs(n)
        b == BitLen(a)
    IN  IF a = 0 THEN Zero
        ELSE IF b <= Prec THEN Fin(Sgn(n) * a * Pow2(Prec - b), e - (Prec - b))
        ELSE LET sh   == b - Prec
                 q    == a \div Pow2(sh)
                 r    == a % Pow2(sh)
                 half == Pow2(sh - 1)
                 up   == r > half \/ (r = half /\ q % 2 = 1)
                 q2   == IF up THEN q + 1 ELSE q
             IN  IF q2 = Pow2(Prec) THEN Fin(Sgn(n) * Pow2(Prec - 1), e + sh + 1)
                 ELSE Fin(Sgn(n) * q2, e + sh)

FromInt(n) == Round(n, 0)

Neg(a) == IF a.c = "nan" THEN NaN ELSE [a EXCEPT !.m = -a.m]

\* a + b for finite a, b.  An operand more than Prec + 3 binary places below
\* the other only decides the direction of rounding (a sticky bit).
FinAdd(a, b) ==
    IF a.m = 0 THEN b
    ELSE IF b.m = 0 THEN a
    ELSE LET hi == IF a.e >= b.e THEN a ELSE b
             lo == IF a.e >= b.e THEN b ELSE a
             d  == hi.e - lo.e
         IN  IF d > Prec + 3
             THEN Round(hi.m * 8 + Sgn(lo.m), hi.e - 3)
             ELSE Round(hi.m * Pow2(d) + lo.m, lo.e)

Add(a, b) ==
    IF a.c = "sym" \/ b.c = "sym" THEN Sym("add", <<a, b>>)
    ELSE IF a.c = "nan" \/ b.c = "nan" THEN NaN
    ELSE IF a.c = "inf" /\ b.c = "inf" THEN (IF a.m = b.m THEN a ELSE NaN)
    ELSE IF a.c = "inf" THEN a
    ELSE IF b.c = "inf" THEN b
    ELSE FinAdd(a, b)

Sub(a, b) == Add(a, Neg(b))

Mul(a, b) ==
    IF a.c = "sym" \/ b.c = "sym" THEN Sym("mul", <<a, b>>)
    ELSE IF a.c = "nan" \/ b.c = "nan" THEN NaN
    ELSE IF a.c = "inf" \/ b.c = "inf"
         THEN (IF a.m = 0 \/ b.m = 0 THEN NaN ELSE Inf(Sgn(a.m) * Sgn(b.m)))
    ELSE Round(a.m * b.m, a.e + b.e)

\* a / b.  x / 0 is inf (x # 0) or nan (x = 0): numpy warns and goes on.
Div(a, b) ==
    IF a.c = "nan" \/ b.c = "nan" THEN NaN
    ELSE IF a.c = "inf" THEN (IF b.c = "inf" THEN NaN
                              ELSE Inf(a.m * (IF b.m < 0 THEN -1 ELSE 1)))
    ELSE IF b.c = "inf" THEN Zero
    ELSE IF b.m = 0 THEN (IF a.m = 0 THEN NaN ELSE Inf(Sgn(a.m)))
    ELSE IF a.m = 0 THEN Zero
    ELSE LET n   == Abs(a.m) * Pow2(Prec + 1)
             q   == n \div Abs(b.m)
             r   == n % Abs(b.m)
             stk == IF r = 0 THEN 0 ELSE 1
         IN  Round(Sgn(a.m) * Sgn(b.m) * (2 * q + stk),
                   a.e - b.e - (Prec + 1) - 1)

RECURSIVE ISqrt(_, _)
\* Largest r with r * r <= n, built bit by bit from bit position k down.
ISqrt(n, k) ==
    IF k < 0 THEN 0
    ELSE LET hi == ISqrt(n \div 4, k - 1) * 2
         IN  IF (hi + 1) * (hi + 1) <= n THEN hi + 1 ELSE hi

Sqrt(a) ==
    IF a.c = "nan" THEN NaN
    ELSE IF a.c = "inf" THEN (IF a.m > 0 THEN a ELSE NaN)
    ELSE IF a.m = 0 THEN Zero
    ELSE IF a.m < 0 THEN NaN
    ELSE LET k   == IF (a.e - (Prec + 4)) % 2 = 0 THEN Prec + 4 ELSE Prec + 5
             n   == a.m * Pow2(k)
             r   == ISqrt(n, BitLen(n))
             stk == IF r * r = n THEN 0 ELSE 1
         IN  Round(2 * r + stk, ((a.e - k) \div 2) - 1)

\* abs(x) ** 2, as np.std squares the deviations.
AbsSq(a) == Mul(a, a)

\* Exact comparison of finite values: the sign of a - b.
Cmp(a, b) ==
    LET lo == IF a.e <= b.e THEN a.e ELSE b.e
    IN  IF a.m = 0 THEN -Sgn(b.m)
        ELSE IF b.m = 0 THEN Sgn(a.m)
        ELSE IF Sgn(a.m) # Sgn(b.m) THEN Sgn(a.m)
        ELSE IF a.e + BitLen(Abs(a.m)) # b.e + BitLen(Abs(b.m))
             THEN (IF a.e + BitLen(Abs(a.m)) > b.e + BitLen(Abs(b.m))
                   THEN Sgn(a.m) ELSE -Sgn(a.m))
        ELSE Sgn(a.m * Pow2(a.e - lo) - b.m * Pow2(b.e - lo))

----------------------------------------------------------------------------
(* numpy reductions over a one-dimensional array (a sequence).             *)

RECURSIVE np_sum(_)
\* add.reduce: left to right for arrays shorter than the pairwise block.
np_sum(a) ==
    IF Len(a) = 0 THEN Zero
    ELSE IF Len(a) = 1 THEN a[1]
    ELSE Add(np_sum(SubSeq(a, 1, Len(a) - 1)), a[Len(a)])

np_mean(a) == Div(np_sum(a), FromInt(Len(a)))

\* np.var: mean(abs(a - mean(a)) ** 2), ddof = 0.
np_var(a) ==
    LET mu == np_mean(a)
    IN  np_mean([i \in 1..Len(a) |-> AbsSq(Sub(a[i], mu))])

np_std(a) == Sqrt(np_var(a))

\* np.round of a scalar: to the nearest integer, ties to even.  nan and inf
\* stay as they are.
np_round(a) ==
    IF a.c # "fin" \/ a.m = 0 \/ a.e >= 0 THEN a
    ELSE IF -a.e > Prec + 1 THEN Zero
    ELSE LET p    == Pow2(-a.e)
             q    == Abs(a.m) \div p
             r    == Abs(a.m) % p
             up   == 2 * r > p \/ (2 * r = p /\ q % 2 = 1)
         IN  FromInt(Sgn(a.m) * (IF up THEN q + 1 ELSE q))

----------------------------------------------------------------------------
(* class Rescaler                                                          *)

\* The value of a name that is not bound yet.
None == [c |-> "None"]

\* A transform that also refreshes the statistics from the values it wrote.
transform_restat(self) ==
    LET ny == [i \in 1..Len(self.original_data) |->
                  Div(Sub(self.original_data[i], self.mean), self.std)]
    IN  [self EXCEPT
            !.y    = ny,
            !.err  = [i \in 1..Len(self.original_err) |->
                         Div(self.original_err[i], self.std)],
            !.mean = np_mean(ny),
            !.std  = np_std(ny)]

\* transform(self): sets self.y and self.err from the stored data, mean
\* and std; returns the object after the call.
transform(self) ==
    [self EXCEPT
        !.y   = [i \in 1..Len(self.original_data) |->
                    Div(Sub(self.original_data[i], self.mean), self.std)],
        !.err = [i \in 1..Len(self.original_err) |->
                    Div(self.original_err[i], self.std)]]

\* A constructor that scales by the variance, np.var for np.std.
Rescaler_var(data, err) ==
    transform([c             |-> "Rescaler",
               original_data |-> data,
               original_err  |-> err,
               mean          |-> np_mean(data),
               std           |-> np_var(data),
               y             |-> <<>>,
               err           |-> <<>>])

\* Rescaler(y, err): __init__ stores the data, computes mean and std once
\* and calls transform().
Rescaler(data, err) ==
    transform([c             |-> "Rescaler",
               original_data |-> data,
               original_err  |-> err,
               mean          |-> np_mean(data),
               std           |-> np_std(data),
               y             |-> <<>>,
               err           |-> <<>>])

\* An invert that restores the scale and leaves the mean out.
invert_nomean(self, scaled_y, scaled_err) ==
    << [i \in 1..Len(scaled_y)   |-> Mul(scaled_y[i], self.std)],
       [i \in 1..Len(scaled_err) |-> Mul(scaled_err[i], self.std)] >>

\* invert(self, scaled_y, scaled_err): the returned pair; self is only read.
invert(self, scaled_y, scaled_err) ==
    << [i \in 1..Len(scaled_y)   |-> Add(Mul(scaled_y[i], self.std), self.mean)],
       [i \in 1..Len(scaled_err) |-> Mul(scaled_err[i], self.std)] >>

----------------------------------------------------------------------------
(* The scikit-learn calls the notebook makes.  The notebook holds only the *)
(* calls; what each does is taken from the estimator's contract: fit       *)
(* maximises the log marginal likelihood over the length scale inside the  *)
(* kernel's bounds, once from the kernel's own length scale and then from  *)
(* n_restarts_optimizer starting points drawn inside the bounds; predict   *)
(* and sample_y read the model; sample_y draws from its own               *)
(* RandomState(0).  Length scales are kept as their decade, log10.         *)

\* length_scale_bounds=(0.01, 1000.0) and length_scale=10.0, as decades.
LogLMin == -2

LogLMax == 3

LogH == 1

\* n_samples=3 and range(3).
NSamples == 3

\* len(xgrid); the notebook's grid has 100 points.
GridLen == 4

\* n_restarts_optimizer; the notebook asks for 9.
NRestarts == 2

\* Number of states of the modelled random number generators.
RngMod == 16

\* The decades a likelihood surface is defined on: one past each bound.
LSDomain == (LogLMin - 1)..(LogLMax + 1)

\* Most local maxima of a likelihood surface.
MaxPeaks == 2

\* Surfaces that rise, or fall, over the whole domain: the maximum lies
\* beyond a bound.
Ramps ==
    {[t \in LSDomain |-> t - (LogLMin - 1)], [t \in LSDomain |-> (LogLMax + 1) - t]}

\* The log marginal likelihood of a training set as a function of the
\* length scale; the model does not evaluate it, any ramp and any surface
\* with at most MaxPeaks raised decades may occur.
Surfaces ==
    {[t \in LSDomain |-> IF t \in P THEN 1 ELSE 0] :
        P \in {Q \in SUBSET LSDomain : Cardinality(Q) <= MaxPeaks}} \cup Ramps

\* np.random.seed(n) and RandomState(n): the generator state for seed n.
Seeded(n) == n % RngMod

RngNext(s) == (5 * s + 3) % RngMod

\* rng.uniform(bounds[0], bounds[1]) read off generator state s.
Uniform(s, bounds) == bounds[1] + (s % (bounds[2] - bounds[1] + 1))

RECURSIVE Climb(_, _, _, _)
\* One local maximisation from t: uphill while a neighbour inside [lo, hi]
\* is strictly better.
Climb(f, lo, hi, t) ==
    IF t + 1 <= hi /\ f[t + 1] > f[t] THEN Climb(f, lo, hi, t + 1)
    ELSE IF t - 1 >= lo /\ f[t - 1] > f[t] THEN Climb(f, lo, hi, t - 1)
    ELSE t

\* The optimizer is bound-constrained: it never leaves the kernel's bounds.
constrained_optimization(f, theta0, bounds) ==
    Climb(f, bounds[1], bounds[2], theta0)

RECURSIVE Starts(_, _, _)
\* The n restart points drawn from generator state s, in order.
Starts(s, n, bounds) ==
    IF n = 0 THEN <<>>
    ELSE <<Uniform(s, bounds)>> \o Starts(RngNext(s), n - 1, bounds)

RECURSIVE Advance(_, _)
Advance(s, n) == IF n = 0 THEN s ELSE Advance(RngNext(s), n - 1)

\* The optimum fit keeps: the best of the runs, the earliest among equals.
BestOf(f, optima) ==
    LET best == CHOOSE i \in 1..Len(optima) :
                   /\ \A j \in 1..Len(optima) : f[optima[j]] <= f[optima[i]]
                   /\ \A j \in 1..(i - 1) : f[optima[j]] < f[optima[i]]
    IN  optima[best]

\* The fitted length scale: the first run starts from the kernel's length
\* scale, the restarts from points drawn from generator state s.
FittedScale(f, g, s) ==
    LET starts == <<g.length_scale>>
                    \o Starts(s, g.n_restarts_optimizer, g.length_scale_bounds)
        optima == [i \in 1..Len(starts) |->
                     constrained_optimization(f, starts[i], g.length_scale_bounds)]
    IN  BestOf(f, optima)

\* An array fit refuses: it holds a nan or an inf.
NotAllFinite(a) == \E i \in 1..Len(a) : a[i].c \in {"nan", "inf"}

\* The length scale predict and sample_y use: the fitted one, or the
\* kernel's own when the model was never fitted (the prior).
ScaleInUse(g) == IF g.fitted THEN g.kernel_ ELSE g.length_scale

\* A value the estimator returns: output f of the model bound to name g with
\* length scale l and generator seed s, for grid point j and sample k.
Out(f, g, l, s, j, k) ==
    [c |-> "sym", f |-> f, g |-> g, l |-> l, s |-> s, j |-> j, k |-> k]

\* predict(xgrid, return_std=True): a mean and a standard deviation for
\* each grid point.
predict(g, name) ==
    << [j \in 1..GridLen |-> Out("mean", name, ScaleInUse(g), 0, j, 0)],
       [j \in 1..GridLen |-> Out("std", name, ScaleInUse(g), 0, j, 0)] >>

\* sample_y(xgrid, n_samples): an array of shape (len(xgrid), n_samples),
\* column k the k-th sampled function, drawn from RandomState(0).
sample_y(g, name, n) ==
    [j \in 1..GridLen |->
        [k \in 1..n |->
            Out("draw", name, ScaleInUse(g), Seeded(0), j, k)]]

----------------------------------------------------------------------------
(* State.                                                                  *)

VARIABLES
    y,          \* the observed y values generate_data returned
    sigmay,     \* their reported uncertainties
    rescaled,   \* the Rescaler instance, or None before it is built
    y2,         \* first value returned to "y2, sigmay2 = rescaled.invert(..)"
    sigmay2,    \* second value returned there
    ret,        \* the pair returned by the latest other invert call
    calls,      \* the Rescaler methods called so far
    pc,         \* the statement of the notebook to execute next
    phase,      \* "runall", "rerun", "idle" (between runs) or "halted"
    reruns,     \* sections re-executed so far
    raised,     \* the exception that stopped the execution, or "None"
    np_random,  \* the state of numpy's global random number generator
    lml,        \* the likelihood surface of the training set at hand
    gp,         \* gp0 .. gp3: the regressor bound to each name, or None
    train,      \* per model: x_k, rescaled_y_k, rescaled_sigmay_k, or None
    pred,       \* rescaled_ygrid_k, rescaled_ygrid_k_err of the latest predict
    params,     \* the length scale last read from kernel_.get_params()
    draws,      \* the array of sampled functions
    sampled,    \* that array as the latest sample_y returned it
    kk,         \* iterations of "for k in range(3)" completed on draws
    unfitted,   \* the predict and sample_y calls made on an unfitted model
    runs        \* what each fit followed by sample_y produced, per run

data == <<y, sigmay>>

rvars == <<rescaled, y2, sigmay2, ret, calls>>

ctl == <<pc, phase, reruns, raised>>

gvars == <<np_random, lml, gp, train, pred, params, draws, sampled, kk,
           unfitted, runs>>

vars == <<data, rvars, ctl, gvars>>

\* generate_data: y values and uncertainties sigma_y >= 0, equally long.
YArrays(n) == [1..n -> {FromInt(k) : k \in 0..MaxY}]

\* Every uncertainty 0..MaxSigma occurs at every position.
SigmaArrays(n) ==
    {[i \in 1..n |-> FromInt((k + i) % (MaxSigma + 1))] : k \in 0..MaxSigma}

\* Arguments tried for an invert call on arbitrary scaled values.
ScaledArgs == {<<FromInt(-1), Zero>>, <<Round(3, -1), FromInt(1)>>}

\* The notebook's names before any cell has run.
Unbound ==
    /\ rescaled = None
    /\ y2 = None
    /\ sigmay2 = None
    /\ ret = None
    /\ calls = {}
    /\ raised = "None"
    /\ gp = [n \in {"gp0", "gp1", "gp2", "gp3"} |-> None]
    /\ train = [n \in {"gp0", "gp1", "gp2", "gp3"} |-> None]
    /\ pred = None
    /\ params = None
    /\ draws = None
    /\ sampled = None
    /\ kk = 0
    /\ unfitted = {}
    /\ runs = {}
    /\ reruns = 0

----------------------------------------------------------------------------
(* The Rescaler class driven call by call.                                 *)

InitRescaler ==
    /\ \E n \in 1..NData :
          /\ y \in YArrays(n)
          /\ sigmay \in SigmaArrays(n)
    /\ Unbound
    /\ pc = 0
    /\ phase = "idle"
    /\ np_random = Seeded(0)
    /\ lml = [t \in LSDomain |-> 0]

\* rescaled = Rescaler(y, sigmay)
R_init ==
    /\ rescaled = None
    /\ rescaled' = Rescaler(y, sigmay)
    /\ calls' = calls \cup {"__init__"}
    /\ UNCHANGED <<data, y2, sigmay2, ret, ctl, gvars>>

\* rescaled.transform()
R_transform ==
    /\ rescaled # None
    /\ rescaled' = transform(rescaled)
    /\ calls' = calls \cup {"transform"}
    /\ UNCHANGED <<data, y2, sigmay2, ret, ctl, gvars>>

\* y2, sigmay2 = rescaled.invert(rescaled.y, rescaled.err)
R_roundtrip ==
    /\ rescaled # None
    /\ LET r == invert(rescaled, rescaled.y, rescaled.err)
       IN  /\ y2' = r[1]
           /\ sigmay2' = r[2]
    /\ calls' = calls \cup {"roundtrip"}
    /\ UNCHANGED <<data, rescaled, ret, ctl, gvars>>

\* rescaled.invert(scaled_y, scaled_err) on any other arguments
R_invert ==
    /\ rescaled # None
    /\ \E a \in ScaledArgs : ret' = invert(rescaled, <<a[1]>>, <<a[2]>>)
    /\ calls' = calls \cup {"invert"}
    /\ UNCHANGED <<data, rescaled, y2, sigmay2, ctl, gvars>>

NextRescaler == R_init \/ R_transform \/ R_roundtrip \/ R_invert

SpecRescaler == InitRescaler /\ [][NextRescaler]_vars

----------------------------------------------------------------------------
(* The notebook, statement by statement.                                   *)

\* Positions of the two datapoints "x[10], x[12]" picks, in a dataset of
\* NData points.
Idx10 == 1

Idx12 == 3

\* Most sections the user re-executes after the first run.
MaxReruns == 1

\* generate_data as the notebook cells see it: NData points, every
\* uncertainty positive.
NbYArrays == [1..NData -> {FromInt(k) : k \in 0..(MaxY - 1)}]

\* Data far from zero with a small spread: its mean and deviations are
\* rounded at the scale of the offset.
OffsetArray ==
    [i \in 1..NData |-> FromInt(3 * Pow2(Prec - 2) + 8 + (i \div NData))]

NbSigma == [i \in 1..NData |-> FromInt(1 + (i % MaxSigma))]

\* A kernel whose bounds are a decade wider on each side.
SquaredExponential_wide ==
    [length_scale |-> LogH, length_scale_bounds |-> <<LogLMin - 1, LogLMax + 1>>]

\* SquaredExponential(length_scale=10.0, length_scale_bounds=(0.01, 1000.0))
SquaredExponential ==
    [length_scale |-> LogH, length_scale_bounds |-> <<LogLMin, LogLMax>>]

\* GaussianProcessRegressor(kernel=kernel, n_restarts_optimizer=9, ...): an
\* unfitted model.  alpha <<>> is the default; random_state {} is None.
GaussianProcessRegressor(kernel, alpha, random_state) ==
    [c                    |-> "GaussianProcessRegressor",
     length_scale         |-> kernel.length_scale,
     length_scale_bounds  |-> kernel.length_scale_bounds,
     n_restarts_optimizer |-> NRestarts,
     alpha                |-> alpha,
     random_state         |-> random_state,
     fitted               |-> FALSE,
     kernel_              |-> kernel.length_scale,
     X_train_             |-> <<>>,
     y_train_             |-> <<>>,
     rng_                 |-> 0]

\* A noise term that leaves the square out.
RelativeNoise_unsquared(t) ==
    [i \in 1..Len(t.y) |-> Div(t.err[i], t.y[i])]

\* alpha=(rescaled_sigmay / rescaled_y) ** 2
RelativeNoise(t) ==
    [i \in 1..Len(t.y) |->
        LET q == Div(t.err[i], t.y[i]) IN Mul(q, q)]

\* Every model built the way gp0 and gp1 are, without a random_state.
NewModel_unseeded(name, t) ==
    GaussianProcessRegressor(SquaredExponential,
                             IF name \in {"gp0", "gp1"} THEN <<>>
                             ELSE RelativeNoise(t), {})

\* The model each constructor call of the notebook builds: gp0 and gp1
\* with default alpha and no random_state, gp2 and gp3 with the relative
\* noise as alpha and random_state=0.
NewModel(name, t) ==
    IF name \in {"gp0", "gp1"}
    THEN GaussianProcessRegressor(SquaredExponential, <<>>, {})
    ELSE GaussianProcessRegressor(SquaredExponential, RelativeNoise(t), {0})

\* The datapoints each model is given: two of them, or all.
Select(name, r) ==
    IF name \in {"gp1", "gp2"}
    THEN [x   |-> <<FromInt(Idx10), FromInt(Idx12)>>,
          y   |-> <<r.y[Idx10], r.y[Idx12]>>,
          err |-> <<r.err[Idx10], r.err[Idx12]>>]
    ELSE [x   |-> [i \in 1..Len(r.y) |-> FromInt(i)],
          y   |-> r.y,
          err |-> r.err]

St(op, g, sec) == [op |-> op, gp |-> g, sec |-> sec]

\* The cells with gp1.predict moved ahead of gp1.fit.
Prog_predict_first ==
    << St("new", "gp0", 1), St("seed", "gp0", 1), St("sample_y", "gp0", 1),
       St("rescale", "gp0", 1), St("roundtrip", "gp0", 1),
       St("select", "gp1", 2), St("new", "gp1", 2), St("predict", "gp1", 2),
       St("fit", "gp1", 2), St("params", "gp1", 2),
       St("invert_grid", "gp1", 2), St("invert_y", "gp1", 2),
       St("sample_y", "gp1", 2), St("invert_draws", "gp1", 2),
       St("select", "gp2", 3), St("new", "gp2", 3), St("fit", "gp2", 3),
       St("params", "gp2", 3), St("predict", "gp2", 3),
       St("invert_grid", "gp2", 3), St("invert_y", "gp2", 3),
       St("sample_y", "gp2", 3), St("invert_draws", "gp2", 3),
       St("select", "gp3", 4), St("new", "gp3", 4), St("fit", "gp3", 4),
       St("predict", "gp3", 4), St("invert_grid", "gp3", 4),
       St("invert_y", "gp3", 4), St("params", "gp3", 4),
       St("sample_y", "gp3", 4), St("invert_draws", "gp3", 4) >>

\* The code cells in notebook order, by section.
Prog ==
    << St("new", "gp0", 1), St("seed", "gp0", 1), St("sample_y", "gp0", 1),
       St("rescale", "gp0", 1), St("roundtrip", "gp0", 1),
       St("select", "gp1", 2), St("new", "gp1", 2), St("fit", "gp1", 2),
       St("params", "gp1", 2), St("predict", "gp1", 2),
       St("invert_grid", "gp1", 2), St("invert_y", "gp1", 2),
       St("sample_y", "gp1", 2), St("invert_draws", "gp1", 2),
       St("select", "gp2", 3), St("new", "gp2", 3), St("fit", "gp2", 3),
       St("params", "gp2", 3), St("predict", "gp2", 3),
       St("invert_grid", "gp2", 3), St("invert_y", "gp2", 3),
       St("sample_y", "gp2", 3), St("invert_draws", "gp2", 3),
       St("select", "gp3", 4), St("new", "gp3", 4), St("fit", "gp3", 4),
       St("predict", "gp3", 4), St("invert_grid", "gp3", 4),
       St("invert_y", "gp3", 4), St("params", "gp3", 4),
       St("sample_y", "gp3", 4), St("invert_draws", "gp3", 4) >>

Running == phase \in {"runall", "rerun"}

\* The statement at pc.
Cur == Prog[pc]

At(op) == Running /\ Cur.op = op

EndOfSection(i) == i = Len(Prog) \/ Prog[i + 1].sec # Prog[i].sec

StartOfSection(i) == IF i = 1 THEN TRUE ELSE Prog[i - 1].sec # Prog[i].sec

\* On to the next statement; a re-executed section ends where it ends.
Goto ==
    /\ IF EndOfSection(pc) /\ (phase = "rerun" \/ pc = Len(Prog))
       THEN pc' = 0 /\ phase' = "idle"
       ELSE pc' = pc + 1 /\ phase' = phase
    /\ UNCHANGED <<reruns, raised>>

\* An exception: the execution stops at this statement.
Raise(e) ==
    /\ raised' = e
    /\ phase' = "halted"
    /\ UNCHANGED <<pc, reruns>>

Init ==
    /\ \/ /\ y \in NbYArrays \cup {OffsetArray}
          /\ sigmay = NbSigma
          /\ lml = [t \in LSDomain |-> IF t = LogH THEN 1 ELSE 0]
       \/ /\ y = [i \in 1..NData |-> FromInt(i * i)]
          /\ sigmay = [i \in 1..NData |-> FromInt(1)]
          /\ lml \in Surfaces
    /\ Unbound
    /\ pc = 1
    /\ phase = "runall"
    /\ np_random \in 0..(RngMod - 1)

\* kernel = SquaredExponential(..); gpN = GaussianProcessRegressor(..)
New ==
    /\ At("new")
    /\ gp' = [gp EXCEPT ![Cur.gp] = NewModel(Cur.gp, train[Cur.gp])]
    /\ Goto
    /\ UNCHANGED <<data, rvars, np_random, lml, train, pred, params, draws,
                   sampled, kk, unfitted, runs>>

\* np.random.seed(1)
Seed ==
    /\ At("seed")
    /\ np_random' = Seeded(1)
    /\ Goto
    /\ UNCHANGED <<data, rvars, lml, gp, train, pred, params, draws, sampled,
                   kk, unfitted, runs>>

\* draws = gpN.sample_y(xgrid, n_samples=3)
SampleY ==
    /\ At("sample_y")
    /\ LET g == gp[Cur.gp]
           d == sample_y(g, Cur.gp, NSamples)
       IN  /\ draws' = d
           /\ sampled' = d
           /\ unfitted' = IF g.fitted THEN unfitted
                          ELSE unfitted \cup {<<Cur.gp, "sample_y">>}
           /\ runs' = IF g.fitted
                      THEN runs \cup {[gp |-> Cur.gp, run |-> reruns,
                                       rng |-> g.rng_,
                                       length_scale |-> g.kernel_, draws |-> d]}
                      ELSE runs
    /\ kk' = 0
    /\ Goto
    /\ UNCHANGED <<data, rvars, np_random, lml, gp, train, pred, params>>

\* rescaled = Rescaler(y, sigmay)
Rescale ==
    /\ At("rescale")
    /\ rescaled' = Rescaler(y, sigmay)
    /\ calls' = calls \cup {"__init__"}
    /\ Goto
    /\ UNCHANGED <<data, y2, sigmay2, ret, gvars>>

\* y2, sigmay2 = rescaled.invert(rescaled.y, rescaled.err)
RoundTrip ==
    /\ At("roundtrip")
    /\ LET r == invert(rescaled, rescaled.y, rescaled.err)
       IN  /\ y2' = r[1]
           /\ sigmay2' = r[2]
    /\ calls' = calls \cup {"roundtrip"}
    /\ Goto
    /\ UNCHANGED <<data, rescaled, ret, gvars>>

\* xN = ..; rescaled_yN = ..; rescaled_sigmayN = ..
SelectData ==
    /\ At("select")
    /\ train' = [train EXCEPT ![Cur.gp] = Select(Cur.gp, rescaled)]
    /\ Goto
    /\ UNCHANGED <<data, rvars, np_random, lml, gp, pred, params, draws,
                   sampled, kk, unfitted, runs>>

\* gpN.fit(xN[:, None], rescaled_yN): refuses targets or noise that are not
\* finite; otherwise sets kernel_ and keeps the training set.  Without a
\* random_state the restart points come from numpy's global generator.
Fit ==
    /\ At("fit")
    /\ LET g   == gp[Cur.gp]
           t   == train[Cur.gp]
           own == g.random_state # {}
           s0  == IF own THEN Seeded(CHOOSE n \in g.random_state : TRUE)
                  ELSE np_random
       IN  IF NotAllFinite(t.y) \/ NotAllFinite(g.alpha)
           THEN /\ Raise("ValueError")
                /\ UNCHANGED <<np_random, gp>>
           ELSE /\ gp' = [gp EXCEPT ![Cur.gp] =
                            [g EXCEPT !.fitted = TRUE,
                                      !.kernel_ = FittedScale(lml, g, s0),
                                      !.X_train_ = t.x,
                                      !.y_train_ = t.y,
                                      !.rng_ = s0]]
                /\ np_random' = IF own THEN np_random
                                ELSE Advance(np_random, g.n_restarts_optimizer)
                /\ Goto
    /\ UNCHANGED <<data, rvars, lml, train, pred, params, draws, sampled,
                   kk, unfitted, runs>>

\* params = gpN.kernel_.get_params()
Params ==
    /\ At("params")
    /\ IF gp[Cur.gp].fitted
       THEN params' = FromInt(gp[Cur.gp].kernel_) /\ Goto
       ELSE params' = params /\ Raise("AttributeError")
    /\ UNCHANGED <<data, rvars, np_random, lml, gp, train, pred, draws,
                   sampled, kk, unfitted, runs>>

\* rescaled_ygridN, rescaled_ygridN_err = gpN.predict(xgrid, return_std=True)
Predict ==
    /\ At("predict")
    /\ pred' = predict(gp[Cur.gp], Cur.gp)
    /\ unfitted' = IF gp[Cur.gp].fitted THEN unfitted
                   ELSE unfitted \cup {<<Cur.gp, "predict">>}
    /\ Goto
    /\ UNCHANGED <<data, rvars, np_random, lml, gp, train, params, draws,
                   sampled, kk, runs>>

\* ygridN, ygridN_err = rescaled.invert(rescaled_ygridN, rescaled_ygridN_err)
InvertGrid ==
    /\ At("invert_grid")
    /\ ret' = invert(rescaled, pred[1], pred[2])
    /\ calls' = calls \cup {"invert"}
    /\ Goto
    /\ UNCHANGED <<data, rescaled, y2, sigmay2, gvars>>

\* yN, sigmayN = rescaled.invert(rescaled_yN, rescaled_sigmayN); for N = 2
\* the names are y2, sigmay2 again.
InvertY ==
    /\ At("invert_y")
    /\ LET r == invert(rescaled, train[Cur.gp].y, train[Cur.gp].err)
       IN  IF Cur.gp = "gp2"
           THEN y2' = r[1] /\ sigmay2' = r[2] /\ ret' = ret
           ELSE ret' = r /\ UNCHANGED <<y2, sigmay2>>
    /\ calls' = calls \cup {"invert"}
    /\ Goto
    /\ UNCHANGED <<data, rescaled, gvars>>

\* A column read that ignores k and takes the first column.
Column_first(a, k) == [j \in 1..Len(a) |-> a[j][1]]

\* draws[:,k]: column k, one value per row.
Column(a, k) == [j \in 1..Len(a) |-> a[j][k]]

\* draws[:,k] = v
SetColumn(a, k, v) == [j \in 1..Len(a) |-> [a[j] EXCEPT ![k] = v[j]]]

\* np.zeros(len(xgrid))
Zeros == [j \in 1..GridLen |-> Zero]

\* for k in range(3):
\*     draws[:,k], dummy = rescaled.invert(draws[:,k], np.zeros(len(xgrid)))
InvertDraws ==
    /\ At("invert_draws")
    /\ draws' = SetColumn(draws, kk + 1,
                          invert(rescaled, Column(draws, kk + 1), Zeros)[1])
    /\ calls' = calls \cup {"invert"}
    /\ kk' = kk + 1
    /\ IF kk + 1 = NSamples THEN Goto ELSE UNCHANGED ctl
    /\ UNCHANGED <<data, rescaled, y2, sigmay2, ret, np_random, lml, gp,
                   train, pred, params, sampled, unfitted, runs>>

\* Between runs the user executes the cells of one section again.
Rerun ==
    /\ phase = "idle"
    /\ reruns < MaxReruns
    /\ \E i \in {j \in 1..Len(Prog) : StartOfSection(j)} : pc' = i
    /\ phase' = "rerun"
    /\ reruns' = reruns + 1
    /\ UNCHANGED <<data, rvars, raised, gvars>>

Next ==
    \/ New \/ Seed \/ SampleY \/ Rescale \/ RoundTrip \/ SelectData \/ Fit
    \/ Params \/ Predict \/ InvertGrid \/ InvertY \/ InvertDraws \/ Rerun

Spec == Init /\ [][Next]_vars

----------------------------------------------------------------------------
(* Measuring rounding error exactly.                                       *)

\* The smallest exponent among the finite values of a set.
MinExp(S) == CHOOSE e \in {a.e : a \in S} : \A b \in S : e <= b.e

\* a as an integer multiple of 2^e0, for e0 <= a.e (or a = 0).
Units(a, e0) == a.m * Pow2(a.e - e0)

\* |a - b| <= k * 2^(-Prec) * (|s1| + |s2|), decided in exact arithmetic.
Close(a, b, k, s1, s2) ==
    /\ IsFinite(a) /\ IsFinite(b)
    /\ LET e0 == MinExp({a, b, s1, s2})
       IN  Pow2(Prec) * Abs(Units(a, e0) - Units(b, e0))
              <= k * (Abs(Units(s1, e0)) + Abs(Units(s2, e0)))

\* y not all identical.
NonDegenerate(a) == \E i, j \in 1..Len(a) : a[i] # a[j]

----------------------------------------------------------------------------
(* C1: Rescaler round trip.                                                *)

\* C1 as stated: for sigma >= 0 and y not all identical,
\* rescaled.invert(rescaled.y, rescaled.err) returns exactly (y, sigmay).
C1_RoundTripExact ==
    ("roundtrip" \in calls /\ NonDegenerate(y)) =>
        (y2 = y /\ sigmay2 = sigmay)

\* C1 amended: the round trip returns (y, sigmay) up to rounding error:
\* |y2[i] - y[i]| <= 5 * 2^(-Prec) * (|y[i]| + |mean|) and
\* |sigmay2[i] - sigmay[i]| <= 3 * 2^(-Prec) * |sigmay[i]|.
C1_RoundTripClose ==
    ("roundtrip" \in calls /\ NonDegenerate(y)) =>
        /\ Len(y2) = Len(y) /\ Len(sigmay2) = Len(sigmay)
        /\ \A i \in 1..Len(y) :
              /\ Close(y2[i], y[i], 5, y[i], rescaled.mean)
              /\ Close(sigmay2[i], sigmay[i], 3, sigmay[i], Zero)

\* A round trip on non-degenerate data that did not return y exactly.
C1_Witness ==
    /\ "roundtrip" \in calls
    /\ NonDegenerate(y)
    /\ \E i \in 1..Len(y) : y2[i] # y[i]

----------------------------------------------------------------------------
(* C2: degenerate input.                                                   *)

\* C2 as stated: when all y values are identical (std = 0) the construction
\* signals DegenerateInput and no Rescaler comes out of it.
C2_DegenerateSignalled ==
    ("__init__" \in calls /\ np_std(y) = Zero) =>
        (raised = "DegenerateInput" /\ rescaled = None)

----------------------------------------------------------------------------
(* C3: mean and std are fixed at construction.                             *)

\* C3: mean and std are the statistics of the constructor's y and no later
\* call changes them.
C3_StatsAtConstruction ==
    rescaled # None =>
        (rescaled.mean = np_mean(y) /\ rescaled.std = np_std(y))

\* C3: no step of transform or invert changes mean or std of the instance.
C3_StatsImmutable ==
    [][rescaled # None =>
          (rescaled'.mean = rescaled.mean /\ rescaled'.std = rescaled.std)]_vars

\* C3: both of the above.
C3_MeanStdFixed == []C3_StatsAtConstruction /\ C3_StatsImmutable

\* An instance on non-degenerate data after transform, invert and a round
\* trip were all called on it.
C3_Witness ==
    /\ {"__init__", "transform", "invert", "roundtrip"} \subseteq calls
    /\ NonDegenerate(y)
    /\ rescaled.mean = np_mean(y)
    /\ rescaled.std # FromInt(1)

----------------------------------------------------------------------------
(* C4: what the rescaling normalises.                                      *)

Names == {"gp0", "gp1", "gp2", "gp3"}

One == FromInt(1)

\* The spread of a is well above its rounding error:
\* std >= 8 * len(a) * 2^(-Prec) * max|a[i]|.
WellConditioned(a) ==
    LET sd == np_std(a)
    IN  /\ IsFinite(sd)
        /\ \A i \in 1..Len(a) :
              Cmp(Fin(sd.m, sd.e + Prec), Fin(8 * Len(a) * Abs(a[i].m), a[i].e)) >= 0

\* The check the notebook prints: np.round(np.mean(a)), np.round(np.var(a)).
RoundsToStandard(a) ==
    np_round(np_mean(a)) = Zero /\ np_round(np_var(a)) = One

Fitted(n) == IF gp[n] = None THEN FALSE ELSE gp[n].fitted

\* C4 as stated: the targets handed to every fit call, the two-point
\* subsets included, have mean 0 and variance 1 (here: as closely as the
\* notebook itself checks, after np.round).
C4_FitTargetsStandard ==
    \A n \in Names : Fitted(n) => RoundsToStandard(gp[n].y_train_)

\* C4 amended: for well-conditioned non-degenerate y the constructor leaves
\* a whole rescaled.y with mean 0 and variance 1 after np.round, and
\* rescaled.err = sigmay / std; gp3 is fitted to the whole rescaled.y, gp1
\* and gp2 to its two selected elements as they are.
C4_WholeDatasetStandard ==
    [][/\ (At("rescale") /\ NonDegenerate(y) /\ WellConditioned(y)) =>
              /\ RoundsToStandard(rescaled'.y)
              /\ \A i \in 1..Len(y) :
                    rescaled'.err[i] = Div(sigmay[i], rescaled'.std)
       /\ (At("fit") /\ phase' # "halted") =>
              gp'[Cur.gp].y_train_ = IF Cur.gp \in {"gp1", "gp2"}
                                     THEN <<rescaled.y[Idx10], rescaled.y[Idx12]>>
                                     ELSE rescaled.y]_vars

\* All of gp1, gp2, gp3 fitted, on data whose two-point subset is not
\* standardised although the whole dataset is.
C4_Witness ==
    /\ Fitted("gp1") /\ Fitted("gp2") /\ Fitted("gp3")
    /\ NonDegenerate(y) /\ WellConditioned(y)
    /\ RoundsToStandard(rescaled.y)
    /\ ~RoundsToStandard(gp["gp1"].y_train_)

----------------------------------------------------------------------------
(* C5: the shape of the sample array.                                      *)

\* C5 as stated: the array has n_samples rows and one column per grid
\* point, row k being the k-th sampled function.
C5_RowsAreSamples ==
    draws # None =>
        /\ Len(draws) = NSamples
        /\ \A k \in 1..Len(draws) : Len(draws[k]) = GridLen

\* C5 amended: the array has one row per grid point and n_samples columns;
\* entry [j][k] is the k-th sampled function at grid point j, and the loop
\* replaces column k by its inverse transform, column by column.
C5_ColumnsAreSamples ==
    draws # None =>
        /\ Len(draws) = GridLen
        /\ \A j \in 1..GridLen :
              /\ Len(draws[j]) = NSamples
              /\ \A k \in 1..NSamples :
                    /\ sampled[j][k].f = "draw"
                    /\ sampled[j][k].j = j
                    /\ sampled[j][k].k = k
                    /\ draws[j][k] =
                          IF k <= kk
                          THEN Add(Mul(sampled[j][k], rescaled.std), rescaled.mean)
                          ELSE sampled[j][k]

\* gp3's samples with every column inverted.
C5_Witness ==
    /\ draws # None
    /\ kk = NSamples
    /\ sampled[1][1].g = "gp3"
    /\ Len(draws) = GridLen
    /\ Len(draws) # NSamples

----------------------------------------------------------------------------
(* C6: fit comes first.                                                    *)

\* C6 as stated: every predict and every sample_y is made on a model whose
\* fit has completed.
C6_AlwaysFitted ==
    /\ unfitted = {}
    /\ (At("predict") \/ At("sample_y")) => Fitted(Cur.gp)

\* C6 amended: every predict, and every sample_y on gp1, gp2 and gp3, is
\* made on a model whose fit has completed; gp0 is sampled without ever
\* being fitted.
C6_FittedButPrior ==
    /\ unfitted \subseteq {<<"gp0", "sample_y">>}
    /\ At("predict") => Fitted(Cur.gp)
    /\ (At("sample_y") /\ Cur.gp # "gp0") => Fitted(Cur.gp)
    /\ ~Fitted("gp0")

\* The whole notebook has run: gp0 was sampled unfitted, gp3 fitted.
C6_Witness ==
    /\ phase = "idle"
    /\ <<"gp0", "sample_y">> \in unfitted
    /\ Fitted("gp3")
    /\ sampled[1][1].g = "gp3"

----------------------------------------------------------------------------
(* C7: the fitted length scale.                                            *)

\* C7: a fitted length scale lies inside the kernel's bounds.
C7_WithinBounds ==
    \A n \in Names :
        Fitted(n) => (LogLMin <= gp[n].kernel_ /\ gp[n].kernel_ <= LogLMax)

\* C7: a model changes only in the statement that builds it or fits it;
\* predict, sample_y, get_params and invert leave every model as it is.
C7_OnlyFitChanges ==
    [][\A n \in Names :
          gp'[n] # gp[n] =>
              (Running /\ Cur.gp = n /\ Cur.op \in {"new", "fit"})]_vars

----------------------------------------------------------------------------
(* C8: determinism.                                                        *)

SameResult(r1, r2) ==
    r1.length_scale = r2.length_scale /\ r1.draws = r2.draws

\* C8 as stated: two runs of the same model on the same inputs give the
\* same length scale and the same samples.
C8_Deterministic ==
    \A r1, r2 \in runs : r1.gp = r2.gp => SameResult(r1, r2)

\* C8 amended: gp2 and gp3, built with random_state=0, give the same length
\* scale and samples on every run; sample_y gives the same samples whenever
\* the length scale is the same; gp1's length scale is settled by the state
\* of numpy's global generator when fit is called.
C8_SeededDeterministic ==
    \A r1, r2 \in runs :
        r1.gp = r2.gp =>
            /\ r1.gp \in {"gp2", "gp3"} => SameResult(r1, r2)
            /\ r1.length_scale = r2.length_scale => r1.draws = r2.draws
            /\ r1.rng = r2.rng => SameResult(r1, r2)

\* gp1 fitted twice to different length scales.
C8_Witness ==
    \E r1, r2 \in runs :
        /\ r1.gp = "gp1" /\ r2.gp = "gp1"
        /\ r1.run # r2.run
        /\ r1.rng # r2.rng
        /\ r1.length_scale # r2.length_scale

\* gp2 run twice.
C8_WitnessSeeded ==
    \E r1, r2 \in runs :
        /\ r1.gp = "gp2" /\ r2.gp = "gp2"
        /\ r1.run # r2.run
        /\ SameResult(r1, r2)

\* Data that is not well conditioned, whose rescaled values fail the check.
C4_IllConditioned ==
    /\ rescaled # None
    /\ NonDegenerate(y)
    /\ ~WellConditioned(y)
    /\ ~RoundsToStandard(rescaled.y)

----------------------------------------------------------------------------
(* C11: the noise term of the two noisy fits.                              *)

\* The positions of y a model's training set is taken from.
Picked(n) ==
    IF n \in {"gp1", "gp2"} THEN <<Idx10, Idx12>>
    ELSE [i \in 1..Len(y) |-> i]

\* (sigma_i / (y_i - mean)) ** 2 computed from the original values.
UnscaledNoise(i) ==
    LET q == Div(sigmay[i], Sub(y[i], rescaled.mean)) IN Mul(q, q)

\* A step that builds gp2 or gp3.
BuildsNoisy == At("new") /\ Cur.gp \in {"gp2", "gp3"}

\* C11 as stated: alpha_i equals (sigma_i / (y_i - mean)) ** 2, and is finite
\* and non-negative exactly when y_i differs from the Rescaler's mean.
C11_StdCancelsExactly ==
    [][BuildsNoisy =>
          \A i \in 1..Len(gp'[Cur.gp].alpha) :
              LET a == gp'[Cur.gp].alpha[i]
                  p == Picked(Cur.gp)[i]
              IN  /\ a = UnscaledNoise(p)
                  /\ (IsFinite(a) /\ a.m >= 0) <=> (y[p] # rescaled.mean)]_vars

\* C11 amended: alpha_i equals (sigma_i / (y_i - mean)) ** 2 up to rounding
\* error, within 12 * 2^(-Prec) of it relatively, and is finite and
\* non-negative exactly when y_i differs from the Rescaler's mean; when y_i
\* equals that mean alpha_i is inf, or nan for sigma_i = 0, and nothing is
\* raised until fit refuses it.
C11_StdCancels ==
    [][BuildsNoisy =>
          \A i \in 1..Len(gp'[Cur.gp].alpha) :
              LET a == gp'[Cur.gp].alpha[i]
                  p == Picked(Cur.gp)[i]
              IN  IF y[p] # rescaled.mean
                  THEN /\ IsFinite(a) /\ a.m >= 0
                       /\ Close(a, UnscaledNoise(p), 12, UnscaledNoise(p), Zero)
                  ELSE /\ a.c = (IF sigmay[p] = Zero THEN "nan" ELSE "inf")
                       /\ a = UnscaledNoise(p)
                       /\ phase' # "halted"]_vars

\* gp3 built on data with one observation at the mean, whose noise term is
\* inf, and another off it, whose noise term is finite and positive.
C11_Witness ==
    /\ gp["gp3"] # None
    /\ \E i \in 1..Len(y) : y[i] = rescaled.mean /\ gp["gp3"].alpha[i].c = "inf"
    /\ \E i \in 1..Len(y) :
          /\ y[i] # rescaled.mean
          /\ IsFinite(gp["gp3"].alpha[i])
          /\ gp["gp3"].alpha[i].m > 0

====
